---- MODULE Spec2Model ----
(***************************************************************************)
(* Retrieval-grounded summary validation (backend/services/qa_validator.py)*)
(* over the flat-L2 vector store (backend/services/vector_store.py).       *)
(*                                                                         *)
(* Vectors are tuples of integers in units of 1/20, so squared L2          *)
(* distances are integers in units of 1/400 and a similarity               *)
(* 1 / (1 + distance) is the exact rational Unit / (Unit + d), kept as a   *)
(* reduced pair <<numerator, denominator>>.                                *)
(***************************************************************************)
EXTENDS Integers, Sequences, FiniteSets, TLC

VARIABLES
    index,          \* VectorStore.index: the vectors of the flat index, position i-1 at index[i]
    metadata,       \* VectorStore.metadata: position -> chunk metadata (a partial map)
    disk_index,     \* the file at index_path as last written by faiss.write_index
    disk_metadata,  \* the file at metadata_path as last written by save_json
    last,           \* the call in progress at the caller: its operation, inputs and outcome
    peer,           \* the VectorStore of a second worker process on the same two files,
                    \* and how far its add_embeddings call has got
    storage,        \* the objects of the S3 bucket and the local chunk files: key -> content
    collection      \* the documents of the MongoDB collection, in insertion order

vars == <<index, metadata, disk_index, disk_metadata, last, peer, storage, collection>>

----------------------------------------------------------------------------
(* Bounds and input sets *)

MaxIndex == 3       \* no call is issued that would grow the index beyond this size
MaxK == 2           \* largest top_k a search is issued with
MaxSentences == 2   \* most sentences in a summary text
MaxStore == 2       \* most index entries of a store that summaries are validated against
MaxShared == 2      \* most entries either of two processes adds to the shared files
MaxText == 4        \* most characters of a text that is split into sentences
MaxChunks == 3      \* most chunks of a store whose documents are listed
MaxLongText == 11   \* most sentences of a long summary text
MaxCollection == 3  \* no call is issued that would grow the collection beyond this size
MaxSections == 6    \* most entries of the sections of a summaries object
MaxEmbedded == 3    \* no embed request is issued that would grow the index beyond this size

Unit == 20 * 20     \* squared length of the unit vector <<20, 0>>

embedding_dim == 2   \* the store is constructed as VectorStore(embedding_dim=2)

Docs == {"doc-1", "doc-2"}
Filters == Docs \cup {""}

V1 == <<20, 0>>
V2 == <<0, 20>>
V3 == <<18, 2>>
BadVec == <<20>>
Q1 == <<19, 1>>
Q0 == <<0, 0>>      \* at squared distance 1 from both V1 and V2: similarity 0.5

QueryVecs == {Q1, V2}

\* the queries search_similar is called with: one has the wrong dimension
SearchQueries == QueryVecs \cup {BadVec}

NoKey == "<absent>"                  \* a dict without the key

\* A chunk_index is the integer n of the chunker's main loop, or the string
\* f"{n}_{sub}" given to a piece of an oversized chunk, or absent from the dict.
IntIndex(n) == [kind |-> "int", n |-> n, sub |-> 0]
StrIndex(n, sub) == [kind |-> "str", n |-> n, sub |-> sub]
NoIndex == [kind |-> "absent", n |-> 0, sub |-> 0]

\* The (chunk, vector) pairs handed to add_embeddings: each chunk text has one
\* embedding; a pair may carry a vector of the wrong length, or a chunk dict
\* without its "chunk_id" key.
Pairs ==
    { [chunk |-> [chunk_id |-> "c1", chunk_index |-> IntIndex(0)], vec |-> V1],
      [chunk |-> [chunk_id |-> "c2", chunk_index |-> IntIndex(1)], vec |-> V2],
      [chunk |-> [chunk_id |-> "c3", chunk_index |-> IntIndex(2)], vec |-> V3],
      [chunk |-> [chunk_id |-> "c1", chunk_index |-> IntIndex(0)], vec |-> BadVec],
      [chunk |-> [chunk_id |-> NoKey, chunk_index |-> NoIndex], vec |-> V2] }

\* chunks as the chunker gives them to a document with an oversized chunk:
\* integer indices next to composite ones
ChunkPairs ==
    { [chunk |-> [chunk_id |-> "c2", chunk_index |-> IntIndex(2)], vec |-> V1],
      [chunk |-> [chunk_id |-> "c10", chunk_index |-> IntIndex(10)], vec |-> V1],
      [chunk |-> [chunk_id |-> "c3_0", chunk_index |-> StrIndex(3, 0)], vec |-> V1],
      [chunk |-> [chunk_id |-> "c10_0", chunk_index |-> StrIndex(10, 0)], vec |-> V1],
      [chunk |-> [chunk_id |-> "c", chunk_index |-> NoIndex], vec |-> V1] }

\* the pairs of the batches handed to add_embeddings on the write path
BatchPairs == {p \in Pairs : p.vec # V3}

Batches == {<<p>> : p \in BatchPairs} \cup {<<p, q>> : p \in BatchPairs, q \in BatchPairs}

Faults == {"none", "write_index", "save_json"}

\* the batches two worker processes insert while sharing the files
SharedBatches == {<<p>> : p \in {q \in Pairs : q.vec \in {V1, V2} /\ q.chunk.chunk_id # NoKey}}

----------------------------------------------------------------------------
(* Arithmetic *)

\* Body applied to value, with value computed once (a local variable)
Bind(value, Body(_)) == CHOOSE r \in {Body(v) : v \in {value}} : TRUE

RECURSIVE Gcd(_, _)
Gcd(a, b) == IF b = 0 THEN a ELSE Gcd(b, a % b)

\* a rational is <<n, d>> with d > 0, reduced
Rat(n, d) == LET g == Gcd(IF n < 0 THEN -n ELSE n, d) IN <<n \div g, d \div g>>

RatAdd(x, y) ==
    LET l == (x[2] \div Gcd(x[2], y[2])) * y[2]
    IN  Rat(x[1] * (l \div x[2]) + y[1] * (l \div y[2]), l)

RatLt(x, y) == x[1] * y[2] < y[1] * x[2]
RatGe(x, y) == ~RatLt(x, y)

RECURSIVE RatSum(_)
RatSum(s) == IF s = <<>> THEN <<0, 1>> ELSE RatAdd(s[1], RatSum(Tail(s)))

RECURSIVE RatMax(_)
RatMax(s) ==
    IF Len(s) = 1 THEN s[1]
    ELSE LET m == RatMax(Tail(s)) IN IF RatLt(s[1], m) THEN m ELSE s[1]

\* the best of the list taken for its mean
MeanOfBest(s) == RatMax(s)

\* np.mean of a non-empty list
Mean(s) == LET t == RatSum(s) IN Rat(t[1], t[2] * Len(s))

\* squared L2 distance, as IndexFlatL2 reports it
RECURSIVE L2Sqr(_, _)
L2Sqr(a, b) ==
    IF a = <<>> THEN 0
    ELSE (a[1] - b[1]) * (a[1] - b[1]) + L2Sqr(Tail(a), Tail(b))

----------------------------------------------------------------------------
(* VectorStore: insertion *)

Idle == [op |-> "idle"]

ntotal(idx) == Len(idx)

\* the first chunk (1-based) whose metadata cannot be built, 0 if none
FirstBadChunk(chunks) ==
    IF \E i \in 1..Len(chunks) : chunks[i].chunk_id = NoKey
    THEN CHOOSE i \in 1..Len(chunks) :
            /\ chunks[i].chunk_id = NoKey
            /\ \A j \in 1..(i - 1) : chunks[j].chunk_id # NoKey
    ELSE 0

\* the metadata loop of _add_to_faiss over chunks 1..n, writing str(start_idx + i)
StoreMetadata(md, document_id, chunks, start_idx, n) ==
    [p \in DOMAIN md \cup {start_idx + i - 1 : i \in 1..n} |->
        IF p >= start_idx /\ p < start_idx + n
        THEN [document_id |-> document_id,
              chunk_id |-> chunks[p - start_idx + 1].chunk_id,
              chunk_index |->
                  IF chunks[p - start_idx + 1].chunk_index.kind = "absent"
                  THEN IntIndex(p - start_idx)       \* chunk.get("chunk_index", i)
                  ELSE chunks[p - start_idx + 1].chunk_index]
        ELSE md[p]]

\* _add_to_faiss: the store after the call and the value returned
AddToFaiss(idx, md, didx, dmd, document_id, chunks, embeddings, fault) ==
    IF \E i \in 1..Len(embeddings) : Len(embeddings[i]) # embedding_dim
    THEN \* np.array / index.add raise before anything is changed
         [index |-> idx, metadata |-> md, disk_index |-> didx, disk_metadata |-> dmd,
          ret |-> FALSE]
    ELSE
      LET start_idx == ntotal(idx)
          idx2 == idx \o embeddings
          bad == FirstBadChunk(chunks)
      IN  IF bad # 0
          THEN \* chunk["chunk_id"] raises: the vectors and the earlier entries stay
               [index |-> idx2,
                metadata |-> StoreMetadata(md, document_id, chunks, start_idx, bad - 1),
                disk_index |-> didx, disk_metadata |-> dmd, ret |-> FALSE]
          ELSE
            LET md2 == StoreMetadata(md, document_id, chunks, start_idx, Len(chunks))
            IN  IF fault = "write_index"
                THEN [index |-> idx2, metadata |-> md2,
                      disk_index |-> didx, disk_metadata |-> dmd, ret |-> FALSE]
                ELSE IF fault = "save_json"
                THEN [index |-> idx2, metadata |-> md2,
                      disk_index |-> idx2, disk_metadata |-> dmd, ret |-> FALSE]
                ELSE [index |-> idx2, metadata |-> md2,
                      disk_index |-> idx2, disk_metadata |-> md2, ret |-> TRUE]

ChunksOf(batch) == [i \in 1..Len(batch) |-> batch[i].chunk]
EmbeddingsOf(batch) == [i \in 1..Len(batch) |-> batch[i].vec]

\* add_embeddings with len(chunks) == len(embeddings)
AddEmbeddings(document_id, batch, fault) ==
    /\ last.op = "idle"
    /\ ntotal(index) + Len(batch) <= MaxIndex
    /\ \E r \in {AddToFaiss(index, metadata, disk_index, disk_metadata,
                            document_id, ChunksOf(batch), EmbeddingsOf(batch), fault)} :
           /\ index' = r.index
           /\ metadata' = r.metadata
           /\ disk_index' = r.disk_index
           /\ disk_metadata' = r.disk_metadata
           /\ last' = [op |-> "add", document_id |-> document_id,
                       chunks |-> ChunksOf(batch), embeddings |-> EmbeddingsOf(batch),
                       outcome |-> "returned", ret |-> r.ret]
    /\ UNCHANGED <<peer, storage, collection>>

\* add_embeddings with one embedding fewer than chunks: ValueError to the caller
AddEmbeddingsLengthMismatch(document_id, batch) ==
    /\ last.op = "idle"
    /\ last' = [op |-> "add", document_id |-> document_id,
                chunks |-> ChunksOf(batch), embeddings |-> Tail(EmbeddingsOf(batch)),
                outcome |-> "raised", ret |-> FALSE]
    /\ UNCHANGED <<index, metadata, disk_index, disk_metadata, peer, storage, collection>>

\* _init_faiss: the store a new VectorStore holds, given the two files. An
\* index file that was never written (<<>>) gives a new empty index and {};
\* the metadata file is never written before the index file, so it is then
\* absent as well.
InitFaiss(didx, dmd) ==
    IF didx = <<>> THEN [index |-> <<>>, metadata |-> [p \in {} |-> 0]]
    ELSE [index |-> didx, metadata |-> dmd]

\* the process restarts: the module-level VectorStore() is constructed anew
Restart ==
    /\ last.op = "idle"
    /\ \E s \in {InitFaiss(disk_index, disk_metadata)} :
           /\ index' = s.index
           /\ metadata' = s.metadata
    /\ UNCHANGED <<disk_index, disk_metadata, last, peer, storage, collection>>

\* A second worker process: its own VectorStore, constructed from the files
\* as they were at the start, with the same two paths. Its _add_to_faiss is
\* taken in the steps between which the calls of the first process can fall:
\* the update in memory, faiss.write_index, save_json.
PeerIdle == [index |-> <<>>, metadata |-> [p \in {} |-> 0], pc |-> "idle"]

PeerAdd(document_id, batch) ==
    /\ peer.pc = "idle"
    /\ ntotal(peer.index) + Len(batch) <= MaxShared
    /\ peer' = [index |-> peer.index \o EmbeddingsOf(batch),
                metadata |-> StoreMetadata(peer.metadata, document_id, ChunksOf(batch),
                                           ntotal(peer.index), Len(batch)),
                pc |-> "write_index",
                start_idx |-> ntotal(peer.index),
                document_id |-> document_id,
                chunks |-> ChunksOf(batch), embeddings |-> EmbeddingsOf(batch)]
    /\ UNCHANGED <<index, metadata, disk_index, disk_metadata, last, storage, collection>>

PeerWriteIndex ==
    /\ peer.pc = "write_index"
    /\ disk_index' = peer.index
    /\ peer' = [peer EXCEPT !.pc = "save_json"]
    /\ UNCHANGED <<index, metadata, disk_metadata, last, storage, collection>>

\* save_json, after which the call returns True
PeerSaveJson ==
    /\ peer.pc = "save_json"
    /\ disk_metadata' = peer.metadata
    /\ peer' = [peer EXCEPT !.pc = "returned"]
    /\ UNCHANGED <<index, metadata, disk_index, last, storage, collection>>

\* the caller of the second process takes the outcome
PeerReturn ==
    /\ peer.pc = "returned"
    /\ peer' = [index |-> peer.index, metadata |-> peer.metadata, pc |-> "idle"]
    /\ UNCHANGED <<index, metadata, disk_index, disk_metadata, last, storage, collection>>

\* the caller takes the outcome of its call
Return ==
    /\ last.op \notin {"idle", "validating"}
    /\ last' = Idle
    /\ UNCHANGED <<index, metadata, disk_index, disk_metadata, peer, storage, collection>>

----------------------------------------------------------------------------
(* VectorStore: search *)

Positions(idx) == 0..(ntotal(idx) - 1)

\* p is reported before r: smaller distance first, equal distances by position
Nearer(idx, q, p, r) ==
    LET dp == L2Sqr(idx[p + 1], q)
        dr == L2Sqr(idx[r + 1], q)
    IN  dp < dr \/ (dp = dr /\ p <= r)

RECURSIVE NearestFirst(_, _, _)
NearestFirst(idx, q, S) ==
    IF S = {} THEN <<>>
    ELSE LET p == CHOOSE p \in S : \A r \in S : Nearer(idx, q, p, r)
         IN  <<p>> \o NearestFirst(idx, q, S \ {p})

\* index.search(query, n): the labels of the n nearest vectors, nearest first
\* (the -1 labels that pad a short answer are the ones the caller skips)
IndexSearch(idx, q, n) ==
    LET all == NearestFirst(idx, q, Positions(idx))
    IN  SubSeq(all, 1, IF n < Len(all) THEN n ELSE Len(all))

\* a similarity computed as 1 - dist
SimilarityLinear(dist) == Rat(Unit - dist, Unit)

\* 1 / (1 + dist)
Similarity(dist) == Rat(Unit, Unit + dist)

\* the filter of _search_faiss: TRUE when the candidate is skipped
Skipped(md, p, document_id) ==
    \/ p \notin DOMAIN md
    \/ (document_id # "" /\ md[p].document_id # document_id)

\* the loop of _search_faiss without its break at top_k results
RECURSIVE CollectNoBreak(_, _, _, _, _, _, _)
CollectNoBreak(idx, md, q, top_k, document_id, cands, results) ==
    IF cands = <<>> THEN results
    ELSE
      LET p == Head(cands)
      IN  IF p \notin DOMAIN md \/ (document_id # "" /\ md[p].document_id # document_id)
          THEN CollectNoBreak(idx, md, q, top_k, document_id, Tail(cands), results)
          ELSE CollectNoBreak(idx, md, q, top_k, document_id, Tail(cands),
                   Append(results,
                          [document_id |-> md[p].document_id,
                           chunk_id |-> md[p].chunk_id,
                           similarity |-> Rat(Unit, Unit + L2Sqr(idx[p + 1], q)),
                           distance |-> L2Sqr(idx[p + 1], q)]))

\* the loop of _search_faiss over the remaining candidates
RECURSIVE Collect(_, _, _, _, _, _, _)
Collect(idx, md, q, top_k, document_id, cands, results) ==
    IF cands = <<>> THEN results
    ELSE
      LET p == Head(cands)
      IN  IF Skipped(md, p, document_id)
          THEN Collect(idx, md, q, top_k, document_id, Tail(cands), results)
          ELSE
            LET dist == L2Sqr(idx[p + 1], q)
                r2 == Append(results,
                             [document_id |-> md[p].document_id,
                              chunk_id |-> md[p].chunk_id,
                              similarity |-> Similarity(dist),
                              distance |-> dist])
            IN  IF Len(r2) >= top_k THEN r2
                ELSE Collect(idx, md, q, top_k, document_id, Tail(cands), r2)

\* _search_faiss: index.search raises for a query of another dimension, and
\* the except clause answers any exception with the empty list
SearchFaiss(idx, md, q, top_k, document_id) ==
    IF Len(q) # embedding_dim THEN <<>>
    ELSE Collect(idx, md, q, top_k, document_id, IndexSearch(idx, q, top_k * 2), <<>>)

\* a search that reports a query it cannot answer, or a filter that matches
\* no metadata, as an error
SearchSimilarStrict(idx, md, q, top_k, document_id) ==
    IF \/ Len(q) # embedding_dim
       \/ (document_id # "" /\ \A p \in DOMAIN md : md[p].document_id # document_id)
    THEN [outcome |-> "raised", results |-> <<>>]
    ELSE [outcome |-> "returned",
          results |-> Collect(idx, md, q, top_k, document_id,
                              IndexSearch(idx, q, top_k * 2), <<>>)]

\* search_similar on the flat index: what the caller gets
SearchSimilar(idx, md, q, top_k, document_id) ==
    [outcome |-> "returned", results |-> SearchFaiss(idx, md, q, top_k, document_id)]

\* search_similar
Search(q, top_k, document_id) ==
    /\ last.op = "idle"
    /\ \E r \in {SearchSimilar(index, metadata, q, top_k, document_id)} :
           last' = [op |-> "search", query |-> q, top_k |-> top_k,
                    document_id |-> document_id,
                    outcome |-> r.outcome, results |-> r.results]
    /\ UNCHANGED <<index, metadata, disk_index, disk_metadata, peer, storage, collection>>

----------------------------------------------------------------------------
(* VectorStore on MongoDB (settings.vector_db other than "faiss")          *)

\* the batches handed to add_embeddings of the MongoDB store
MongoBatches == {<<p>> : p \in {q \in Pairs : q.vec # BadVec}}

RECURSIVE Dot(_, _)
Dot(a, b) == IF a = <<>> THEN 0 ELSE a[1] * b[1] + Dot(Tail(a), Tail(b))

\* the index is declared with similarity "cosine": document i is at least as
\* near to q as document j (no vector here has a negative component, so the
\* cosines are compared by their squares)
NearerByCosine(coll, q, i, j) ==
    LET a == coll[i].embedding
        b == coll[j].embedding
        ci == Dot(a, q) * Dot(a, q) * Dot(b, b)
        cj == Dot(b, q) * Dot(b, q) * Dot(a, a)
    IN  ci > cj \/ (ci = cj /\ i <= j)

RECURSIVE MongoNearest(_, _, _)
MongoNearest(coll, q, S) ==
    IF S = {} THEN <<>>
    ELSE LET i == CHOOSE i \in S : \A j \in S : NearerByCosine(coll, q, i, j)
         IN  <<i>> \o MongoNearest(coll, q, S \ {i})

\* the $vectorSearch stage: the limit nearest of the candidates, nearest first
VectorSearch(coll, q, num_candidates, limit) ==
    LET all == MongoNearest(coll, q, DOMAIN coll)
    IN  SubSeq(all, 1, IF limit < Len(all) THEN limit ELSE Len(all))

\* the $match stage on the output of $vectorSearch, and the formatting
RECURSIVE MatchStage(_, _, _)
MatchStage(coll, found, document_id) ==
    IF found = <<>> THEN <<>>
    ELSE IF document_id # "" /\ coll[Head(found)].document_id # document_id
         THEN MatchStage(coll, Tail(found), document_id)
         ELSE <<[document_id |-> coll[Head(found)].document_id,
                 chunk_id |-> coll[Head(found)].chunk_id]>>
              \o MatchStage(coll, Tail(found), document_id)

\* _search_mongodb
SearchMongodb(coll, q, top_k, document_id) ==
    MatchStage(coll, VectorSearch(coll, q, top_k * 2, top_k), document_id)

\* search_similar on the MongoDB store
MongoSearch(q, top_k, document_id) ==
    /\ last.op = "idle"
    /\ last' = [op |-> "mongo_search", query |-> q, top_k |-> top_k,
                document_id |-> document_id,
                results |-> SearchMongodb(collection, q, top_k, document_id)]
    /\ UNCHANGED <<index, metadata, disk_index, disk_metadata, peer, storage, collection>>

RECURSIVE MongoDocuments(_, _)
MongoDocuments(document_id, batch) ==
    IF batch = <<>> THEN <<>>
    ELSE <<[document_id |-> document_id,
            chunk_id |-> Head(batch).chunk.chunk_id,
            embedding |-> Head(batch).vec]>> \o MongoDocuments(document_id, Tail(batch))

\* add_embeddings on the MongoDB store: _add_to_mongodb builds the documents
\* (chunk["chunk_id"] raises for a chunk without the key) and inserts them
MongoAdd(document_id, batch) ==
    /\ last.op = "idle"
    /\ Len(collection) + Len(batch) <= MaxCollection
    /\ IF \E i \in 1..Len(batch) : batch[i].chunk.chunk_id = NoKey
       THEN /\ collection' = collection
            /\ last' = [op |-> "mongo_add", document_id |-> document_id,
                        batch |-> batch, ret |-> FALSE]
       ELSE /\ collection' = collection \o MongoDocuments(document_id, batch)
            /\ last' = [op |-> "mongo_add", document_id |-> document_id,
                        batch |-> batch, ret |-> TRUE]
    /\ UNCHANGED <<index, metadata, disk_index, disk_metadata, peer, storage>>

NextMongo ==
    \/ \E d \in Docs, b \in MongoBatches : MongoAdd(d, b)
    \/ \E q \in QueryVecs, k \in 1..MaxK, d \in Filters : MongoSearch(q, k, d)
    \/ Return

----------------------------------------------------------------------------
(* VectorStore: get_document_chunks *)

\* str(n) as character codes
RECURSIVE Digits(_)
Digits(n) == IF n < 10 THEN <<48 + n>> ELSE Append(Digits(n \div 10), 48 + (n % 10))

\* the string f"{n}_{sub}" as character codes ("_" is 95)
StrCodes(ci) == Digits(ci.n) \o <<95>> \o Digits(ci.sub)

\* a < b for two strings
RECURSIVE LexLt(_, _)
LexLt(a, b) ==
    IF b = <<>> THEN FALSE
    ELSE IF a = <<>> THEN TRUE
    ELSE IF a[1] # b[1] THEN a[1] < b[1]
    ELSE LexLt(Tail(a), Tail(b))

\* x < y for two chunk_index values of the same type
KeyLt(x, y) ==
    IF x.kind = "int" THEN x.n < y.n ELSE LexLt(StrCodes(x), StrCodes(y))

\* the loop over self.metadata.items(): the entries of the document by position
RECURSIVE ChunksFrom(_, _, _, _)
ChunksFrom(md, document_id, p, limit) ==
    IF p >= limit THEN <<>>
    ELSE IF p \in DOMAIN md /\ md[p].document_id = document_id
         THEN <<md[p]>> \o ChunksFrom(md, document_id, p + 1, limit)
         ELSE ChunksFrom(md, document_id, p + 1, limit)

\* c put into a sorted list after the entries that are not greater
RECURSIVE InsertSorted(_, _)
InsertSorted(sorted, c) ==
    IF sorted = <<>> THEN <<c>>
    ELSE IF KeyLt(c.chunk_index, sorted[1].chunk_index) THEN <<c>> \o sorted
    ELSE <<sorted[1]>> \o InsertSorted(Tail(sorted), c)

\* sorted(chunks, key=...): stable
RECURSIVE Sorted(_)
Sorted(chunks) ==
    IF chunks = <<>> THEN <<>>
    ELSE InsertSorted(Sorted(SubSeq(chunks, 1, Len(chunks) - 1)), chunks[Len(chunks)])

\* _get_chunks_from_faiss: "<" between an int and a str raises TypeError
GetChunksFromFaiss(md, limit, document_id) ==
    LET chunks == ChunksFrom(md, document_id, 0, limit)
    IN  IF \E i, j \in 1..Len(chunks) : chunks[i].chunk_index.kind # chunks[j].chunk_index.kind
        THEN [outcome |-> "raised", chunks |-> <<>>]
        ELSE [outcome |-> "returned", chunks |-> Sorted(chunks)]

\* get_document_chunks
GetDocumentChunks(document_id) ==
    /\ last.op = "idle"
    /\ \E r \in {GetChunksFromFaiss(metadata, ntotal(index), document_id)} :
           last' = [op |-> "chunks", document_id |-> document_id,
                    outcome |-> r.outcome, chunks |-> r.chunks]
    /\ UNCHANGED <<index, metadata, disk_index, disk_metadata, peer, storage, collection>>

----------------------------------------------------------------------------
(* QAValidatorService *)

similarity_threshold == <<7, 10>>      \* settings.similarity_threshold = 0.7
HighSeverityBelow == <<1, 2>>          \* 0.5
SummaryTopK == 10
SentenceTopK == 3
SentenceLimit == 10
MinSentenceChars == 20
IssueChars == 100
IssueLimit == 5
SectionSample == 5

None == <<>>    \* generate_embedding returns None on any provider error

\* A text is given by what the embedding provider answers for it and for each
\* of its sentences (as _split_into_sentences returns them): a sentence has
\* chars = len(sentence.strip()) characters.
Sentences == {[chars |-> 19, embedding |-> None]} \cup
             [chars : {101}, embedding : QueryVecs \cup {None}]

SentenceSeqs(n) == UNION {[1..m -> Sentences] : m \in 0..n}

\* a text whose own embedding fails is tried with at most one sentence; one
\* text gets an embedding of another dimension than the index, one an
\* embedding at similarity 0.5 to every stored vector
Texts == [embedding : QueryVecs, sentences : SentenceSeqs(MaxSentences)]
         \cup [embedding : {None}, sentences : SentenceSeqs(1)]
         \cup {[embedding |-> BadVec, sentences |-> <<>>],
               [embedding |-> Q0, sentences |-> <<>>]}

First(s, n) == SubSeq(s, 1, IF n < Len(s) THEN n ELSE Len(s))

Similarities(chunks) == [i \in 1..Len(chunks) |-> chunks[i].similarity]

\* a failed validation reported as a finding
ErrorResultFlagged(message) ==
    [valid |-> FALSE, error |-> message,
     hallucinations |-> <<[type |-> "low_similarity", severity |-> "high",
                           threshold |-> <<7, 10>>, actual_similarity |-> <<0, 1>>]>>,
     overall_similarity |-> <<0, 1>>]

ErrorResult(message) ==
    [valid |-> FALSE, error |-> message, hallucinations |-> <<>>,
     overall_similarity |-> <<0, 1>>]

\* a sentence loop that flags by the mean similarity of the neighbours
SentenceStepByMean(idx, md, document_id, sentence, i, acc) ==
    IF sentence.chars < MinSentenceChars THEN acc
    ELSE
      Bind([acc EXCEPT !.embed_calls = @ + 1, !.examined = Append(@, i)], LAMBDA called :
        IF sentence.embedding = None THEN called
        ELSE
          Bind(SearchFaiss(idx, md, sentence.embedding, SentenceTopK, document_id),
               LAMBDA sent_similar :
            IF sent_similar = <<>> THEN called
            ELSE
              Bind(Mean(Similarities(sent_similar)), LAMBDA max_sim :
                IF RatLt(max_sim, similarity_threshold)
                THEN [called EXCEPT !.issues =
                         Append(@, [sentence |-> i,
                                    chars |-> IF sentence.chars < IssueChars
                                              THEN sentence.chars ELSE IssueChars,
                                    similarity |-> max_sim,
                                    threshold |-> similarity_threshold])]
                ELSE called)))

\* one pass of the sentence loop of validate_summary: the issues, the count
\* of embedding calls and the sentences embedded after sentence i (the i-th
\* of the summary); an issue carries sentence[:100], here the number of the
\* sentence and the number of characters kept
SentenceStep(idx, md, document_id, sentence, i, acc) ==
    IF sentence.chars < MinSentenceChars THEN acc
    ELSE
      Bind([acc EXCEPT !.embed_calls = @ + 1, !.examined = Append(@, i)], LAMBDA called :
        IF sentence.embedding = None THEN called
        ELSE
          Bind(SearchFaiss(idx, md, sentence.embedding, SentenceTopK, document_id),
               LAMBDA sent_similar :
            IF sent_similar = <<>> THEN called
            ELSE
              Bind(RatMax(Similarities(sent_similar)), LAMBDA max_sim :
                IF RatLt(max_sim, similarity_threshold)
                THEN [called EXCEPT !.issues =
                         Append(@, [sentence |-> i,
                                    chars |-> IF sentence.chars < IssueChars
                                              THEN sentence.chars ELSE IssueChars,
                                    similarity |-> max_sim,
                                    threshold |-> similarity_threshold])]
                ELSE called)))

\* the sentence loop of validate_summary from sentence i on
RECURSIVE SentenceLoop(_, _, _, _, _, _)
SentenceLoop(idx, md, document_id, sentences, i, acc) ==
    IF i > Len(sentences) THEN acc
    ELSE Bind(SentenceStep(idx, md, document_id, sentences[i], i, acc), LAMBDA next :
              SentenceLoop(idx, md, document_id, sentences, i + 1, next))

\* a severity rule that counts 0.5 itself as high
LowSimilarityIssuesInclusive(avg_similarity) ==
    IF RatLt(avg_similarity, similarity_threshold)
    THEN <<[type |-> "low_similarity",
            severity |-> IF RatLt(<<1, 2>>, avg_similarity)
                         THEN "medium" ELSE "high",
            threshold |-> similarity_threshold,
            actual_similarity |-> avg_similarity]>>
    ELSE <<>>

\* the low_similarity issue of validate_summary, if any
LowSimilarityIssues(avg_similarity) ==
    IF RatLt(avg_similarity, similarity_threshold)
    THEN <<[type |-> "low_similarity",
            severity |-> IF RatLt(avg_similarity, HighSeverityBelow)
                         THEN "high" ELSE "medium",
            threshold |-> similarity_threshold,
            actual_similarity |-> avg_similarity]>>
    ELSE <<>>

\* an assessment by the overall similarity alone
IsValidBySimilarity(avg_similarity, hallucinations) ==
    ~(avg_similarity[1] * 10 < 7 * avg_similarity[2])

\* the overall assessment of validate_summary
IsValid(avg_similarity, hallucinations) ==
    RatGe(avg_similarity, similarity_threshold) /\ Len(hallucinations) = 0

\* a sentence_level issue whose count is that of the issues it lists
HallucinationsCountingListed(avg_similarity, sentence_issues) ==
    IF sentence_issues # <<>>
    THEN Append(LowSimilarityIssues(avg_similarity),
                [type |-> "sentence_level",
                 severity |-> "medium",
                 count |-> Len(First(sentence_issues, IssueLimit)),
                 issues |-> First(sentence_issues, IssueLimit)])
    ELSE LowSimilarityIssues(avg_similarity)

\* the hallucinations list of validate_summary
Hallucinations(avg_similarity, sentence_issues) ==
    IF sentence_issues # <<>>
    THEN Append(LowSimilarityIssues(avg_similarity),
                [type |-> "sentence_level",
                 severity |-> "medium",
                 count |-> Len(sentence_issues),
                 issues |-> First(sentence_issues, IssueLimit)])
    ELSE LowSimilarityIssues(avg_similarity)

\* validate_summary from the average similarity on
Assess(idx, md, document_id, text, summary_type, similar_chunks) ==
    Bind(Mean(Similarities(similar_chunks)), LAMBDA avg_similarity :
      Bind(SentenceLoop(idx, md, document_id, First(text.sentences, SentenceLimit), 1,
                        [issues |-> <<>>, embed_calls |-> 0, examined |-> <<>>]), LAMBDA loop :
        Bind(Hallucinations(avg_similarity, loop.issues), LAMBDA hallucinations :
          [result |->
              [valid |-> IsValid(avg_similarity, hallucinations),
               error |-> NoKey,
               overall_similarity |-> avg_similarity,
               threshold |-> similarity_threshold,
               hallucinations |-> hallucinations,
               similar_chunks_count |-> Len(similar_chunks),
               top_similar_chunks |-> First(similar_chunks, 3),
               summary_type |-> summary_type],
           embed_calls |-> loop.embed_calls,
           examined |-> loop.examined])))

\* validate_summary: the result returned, and the number of embedding calls
\* made for single sentences
ValidateSummaryResult(idx, md, document_id, text, summary_type) ==
    IF text.embedding = None
    THEN [result |-> ErrorResult("Failed to generate summary embedding"),
          embed_calls |-> 0, examined |-> <<>>]
    ELSE
      Bind(SearchFaiss(idx, md, text.embedding, SummaryTopK, document_id),
           LAMBDA similar_chunks :
        IF similar_chunks = <<>>
        THEN [result |-> ErrorResult("No matching chunks found in document"),
              embed_calls |-> 0, examined |-> <<>>]
        ELSE Assess(idx, md, document_id, text, summary_type, similar_chunks))

\* validate_summary
ValidateSummary(document_id, text) ==
    /\ last.op = "idle"
    /\ \E v \in {ValidateSummaryResult(index, metadata, document_id, text, "overview")} :
           last' = [op |-> "validate", document_id |-> document_id, text |-> text,
                    result |-> v.result, embed_calls |-> v.embed_calls,
                    examined |-> v.examined]
    /\ UNCHANGED <<index, metadata, disk_index, disk_metadata, peer, storage, collection>>

\* validate_summary taken one external call at a time. The call waits in
\* generate_embedding for the provider's answer to the whole summary
\* (awaiting = 0) or to its sentence number awaiting; the client and the call
\* are given no timeout, so only an answer (an embedding, or an error that
\* becomes None) lets the call go on.
CallValidate(document_id, text) ==
    /\ last.op = "idle"
    /\ last' = [op |-> "validating", document_id |-> document_id, text |-> text,
                awaiting |-> 0]
    /\ UNCHANGED <<index, metadata, disk_index, disk_metadata, peer, storage, collection>>

\* the sentences after number i for which generate_embedding is called
LaterExamined(text, i) ==
    {j \in (i + 1)..Len(First(text.sentences, SentenceLimit)) : text.sentences[j].chars >= MinSentenceChars}

\* both early returns of validate_summary are passed
ReachesSentences(idx, md, document_id, text) ==
    /\ text.embedding # None
    /\ SearchFaiss(idx, md, text.embedding, SummaryTopK, document_id) # <<>>

\* the embedding provider answers the request in flight, and validate_summary
\* runs on from the answer to its next embedding request or to its return
ProviderAnswers ==
    /\ last.op = "validating"
    /\ IF /\ (last.awaiting = 0) =>
                 ReachesSentences(index, metadata, last.document_id, last.text)
          /\ LaterExamined(last.text, last.awaiting) # {}
       THEN last' = [last EXCEPT
                        !.awaiting = CHOOSE j \in LaterExamined(last.text, last.awaiting) :
                                        \A k \in LaterExamined(last.text, last.awaiting) : j <= k]
       ELSE \E v \in {ValidateSummaryResult(index, metadata, last.document_id,
                                             last.text, "overview")} :
                last' = [op |-> "validate", document_id |-> last.document_id,
                         text |-> last.text,
                         result |-> v.result, embed_calls |-> v.embed_calls,
                    examined |-> v.examined]
    /\ UNCHANGED <<index, metadata, disk_index, disk_metadata, peer, storage, collection>>

\* The summaries object: each of the keys overview, bullets, sections is
\* absent (<<>>) or present (<<value>>). The overview is a text; the bullets
\* are a list of strings (joinable) or not, given by their lines; the
\* sections are a list of entries, each with its "summary" (<<text>>) or
\* without the key (<<>>).
T_fail == [embedding |-> None, sentences |-> <<>>]
T_near == [embedding |-> Q1, sentences |-> <<>>]
T_sentence == [embedding |-> Q1, sentences |-> <<[chars |-> 101, embedding |-> V2]>>]

SummaryTexts == {T_fail, T_near, T_sentence}

OverviewValues == {<<>>} \cup {<<t>> : t \in SummaryTexts}

BulletsValues ==
    {<<>>} \cup {<<[joinable |-> TRUE, lines |-> <<t>>]>> : t \in SummaryTexts}
           \cup {<<[joinable |-> FALSE, lines |-> <<T_near>>]>>}

Entry(t) == [summary |-> <<t>>]
NoSummary == [summary |-> <<>>]

SectionsValues ==
    {<<>>} \cup {<< <<Entry(t)>> >> : t \in SummaryTexts}
           \cup {<< <<NoSummary>> >>, << <<Entry(T_near), NoSummary>> >>}

\* "\n".join(lines) as the validator meets it: the sentences of the lines
\* one after the other, each line ending its last sentence; the provider's
\* answer for the joined text is taken to be its answer for the last line,
\* and for the empty string an error
RECURSIVE JoinSentences(_)
JoinSentences(lines) ==
    IF lines = <<>> THEN <<>>
    ELSE Head(lines).sentences \o JoinSentences(Tail(lines))

JoinTexts(lines) ==
    IF lines = <<>> THEN [embedding |-> None, sentences |-> <<>>]
    ELSE [embedding |-> lines[Len(lines)].embedding,
          sentences |-> JoinSentences(lines)]

\* [s["summary"] for s in entries]
RECURSIVE SectionTexts(_)
SectionTexts(entries) ==
    IF entries = <<>> THEN <<>>
    ELSE Head(entries).summary \o SectionTexts(Tail(entries))

SummariesObjects ==
    [overview : OverviewValues, bullets : BulletsValues, sections : SectionsValues]

\* "\n".join(summaries["bullets"]) raises unless the value is a list of strings
BulletsRaise(summaries) ==
    summaries.bullets # <<>> /\ ~summaries.bullets[1].joinable

\* s["summary"] raises for an entry, among the first SectionSample, without the key
SectionsRaise(summaries) ==
    /\ summaries.sections # <<>>
    /\ LET e == First(summaries.sections[1], SectionSample)
       IN  \E i \in 1..Len(e) : e[i].summary = <<>>

\* one granularity of validate_all_summaries: None when the key is absent
Validation(idx, md, document_id, value, summary_type) ==
    IF value = <<>> THEN <<>>
    ELSE <<ValidateSummaryResult(idx, md, document_id, value[1], summary_type).result>>

\* an aggregate that counts an absent granularity as a failure
AllPresentAndValid(validations) ==
    \A i \in 1..Len(validations) :
        validations[i] # <<>> /\ validations[i][1].valid

AllValid(validations) ==
    \A i \in 1..Len(validations) :
        validations[i] = <<>> \/ validations[i][1].valid

\* the section summaries joined without sampling the first five
GranularityTextsUnsampled(summaries) ==
    [overview |-> summaries.overview,
     bullets |-> IF summaries.bullets = <<>> THEN <<>>
                 ELSE <<JoinTexts(summaries.bullets[1].lines)>>,
     sections |-> IF summaries.sections = <<>> THEN <<>>
                  ELSE <<JoinTexts(SectionTexts(summaries.sections[1]))>>]

\* the texts validate_all_summaries validates, None for an absent key
GranularityTexts(summaries) ==
    [overview |-> summaries.overview,
     bullets |-> IF summaries.bullets = <<>> THEN <<>>
                 ELSE <<JoinTexts(summaries.bullets[1].lines)>>,
     sections |-> IF summaries.sections = <<>> THEN <<>>
                  ELSE <<JoinTexts(SectionTexts(
                            First(summaries.sections[1], SectionSample)))>>]

\* the validate_summary calls of validate_all_summaries, in order: the type
\* and the text of each
RECURSIVE CallsMade(_, _)
CallsMade(texts, types) ==
    IF types = <<>> THEN <<>>
    ELSE (IF texts[Head(types)] = <<>> THEN <<>>
          ELSE <<[summary_type |-> Head(types), text |-> texts[Head(types)][1]]>>)
         \o CallsMade(texts, Tail(types))

\* validate_all_summaries: the report returned, or the exception raised
ValidateAllResult(idx, md, document_id, summaries) ==
    IF BulletsRaise(summaries) \/ SectionsRaise(summaries)
    THEN [outcome |-> "raised"]
    ELSE
      Bind([g \in {"overview", "bullets", "sections"} |->
               Validation(idx, md, document_id, GranularityTexts(summaries)[g], g)],
           LAMBDA v :
        [outcome |-> "returned",
         calls |-> CallsMade(GranularityTexts(summaries),
                             <<"overview", "bullets", "sections">>),
         report |-> [document_id |-> document_id,
                     overview_validation |-> v["overview"],
                     bullets_validation |-> v["bullets"],
                     sections_validation |-> v["sections"],
                     overall_valid |->
                         AllValid(<<v["overview"], v["bullets"], v["sections"]>>)]])

\* validate_all_summaries
ValidateAllSummaries(document_id, summaries) ==
    /\ last.op = "idle"
    /\ \E v \in {ValidateAllResult(index, metadata, document_id, summaries)} :
           last' = IF v.outcome = "raised"
                   THEN [op |-> "validate_all", document_id |-> document_id,
                         summaries |-> summaries, outcome |-> "raised"]
                   ELSE [op |-> "validate_all", document_id |-> document_id,
                         summaries |-> summaries, outcome |-> "returned",
                         calls |-> v.calls, report |-> v.report]
    /\ UNCHANGED <<index, metadata, disk_index, disk_metadata, peer, storage, collection>>

----------------------------------------------------------------------------
(* QAValidatorService._split_into_sentences: a text is a sequence of        *)
(* one-character strings.                                                  *)

IsPunct(c) == c \in {".", "!", "?"}
IsSpace(c) == c \in {" "}

\* the first index from i on at which text has no character of the class
RECURSIVE SkipPunct(_, _)
SkipPunct(text, i) ==
    IF i <= Len(text) /\ IsPunct(text[i]) THEN SkipPunct(text, i + 1) ELSE i

RECURSIVE SkipSpace(_, _)
SkipSpace(text, i) ==
    IF i <= Len(text) /\ IsSpace(text[i]) THEN SkipSpace(text, i + 1) ELSE i

\* re.split(r'[.!?]+\s+', text) from index i on: piece is the text since the
\* last separator. A separator starts at a punctuation character whose run of
\* punctuation is followed by whitespace, and takes all of that whitespace.
RECURSIVE ReSplit(_, _, _, _)
ReSplit(text, i, piece, pieces) ==
    IF i > Len(text) THEN Append(pieces, piece)
    ELSE IF /\ IsPunct(text[i])
            /\ SkipPunct(text, i) <= Len(text)
            /\ IsSpace(text[SkipPunct(text, i)])
         THEN ReSplit(text, SkipSpace(text, SkipPunct(text, i)), <<>>,
                      Append(pieces, piece))
         ELSE ReSplit(text, i + 1, Append(piece, text[i]), pieces)

\* str.strip()
RECURSIVE Strip(_)
Strip(s) ==
    IF s = <<>> THEN s
    ELSE IF IsSpace(s[1]) THEN Strip(Tail(s))
    ELSE IF IsSpace(s[Len(s)]) THEN Strip(SubSeq(s, 1, Len(s) - 1))
    ELSE s

\* [s.strip() for s in sentences if s.strip()]
RECURSIVE StripAll(_)
StripAll(pieces) ==
    IF pieces = <<>> THEN <<>>
    ELSE IF Strip(pieces[1]) = <<>> THEN StripAll(Tail(pieces))
    ELSE <<Strip(pieces[1])>> \o StripAll(Tail(pieces))

\* _split_into_sentences
SplitSentences(text) == StripAll(ReSplit(text, 1, <<>>, <<>>))

ExampleText ==
    <<"P", "o", "l", "i", "c", "y", " ", "c", "o", "v", "e", "r", "s", " ",
      "f", "i", "r", "e", " ", "d", "a", "m", "a", "g", "e", ".", " ", "I",
      "t", " ", "e", "x", "c", "l", "u", "d", "e", "s", " ", "f", "l", "o",
      "o", "d", " ", "d", "a", "m", "a", "g", "e", "!", " ", "W", "h", "a",
      "t", " ", "a", "b", "o", "u", "t", " ", "w", "i", "n", "d", "?">>

ExampleSentences ==
    <<<<"P", "o", "l", "i", "c", "y", " ", "c", "o", "v", "e", "r", "s", " ",
        "f", "i", "r", "e", " ", "d", "a", "m", "a", "g", "e">>,
      <<"I", "t", " ", "e", "x", "c", "l", "u", "d", "e", "s", " ", "f", "l",
        "o", "o", "d", " ", "d", "a", "m", "a", "g", "e">>,
      <<"W", "h", "a", "t", " ", "a", "b", "o", "u", "t", " ", "w", "i", "n",
        "d">>>>

Alphabet == {"a", ".", "?", " "}

SplitTexts == {ExampleText} \cup UNION {[1..n -> Alphabet] : n \in 0..MaxText}

\* _split_into_sentences
SplitIntoSentences(text) ==
    /\ last.op = "idle"
    /\ last' = [op |-> "split", text |-> text, sentences |-> SplitSentences(text)]
    /\ UNCHANGED <<index, metadata, disk_index, disk_metadata, peer, storage, collection>>

NextSplit ==
    \/ \E text \in SplitTexts : SplitIntoSentences(text)
    \/ Return

----------------------------------------------------------------------------

EmptyMap == [p \in {} |-> 0]

Init ==
    /\ index = <<>>
    /\ metadata = EmptyMap
    /\ disk_index = <<>>
    /\ disk_metadata = EmptyMap
    /\ last = Idle
    /\ peer = PeerIdle
    /\ storage = EmptyMap
    /\ collection = <<>>

Next ==
    \/ \E d \in Docs, b \in Batches, f \in Faults : AddEmbeddings(d, b, f)
    \/ \E d \in Docs, b \in Batches : AddEmbeddingsLengthMismatch(d, b)
    \/ Restart
    \/ Return

Spec == Init /\ [][Next]_vars

----------------------------------------------------------------------------
(* Two worker processes on the same index and metadata files.              *)

NextShared ==
    \/ \E d \in Docs, b \in SharedBatches : AddEmbeddings(d, b, "none")
    \/ \E d \in Docs, b \in SharedBatches : PeerAdd(d, b)
    \/ PeerWriteIndex
    \/ PeerSaveJson
    \/ PeerReturn
    \/ Return

SpecShared == Init /\ [][NextShared]_vars

\* sentence splitting, as a function of the text
SpecSplit == Init /\ [][NextSplit]_vars

SpecMongo == Init /\ [][NextMongo]_vars

----------------------------------------------------------------------------
(* The read path: searches and validations over a store built by earlier   *)
(* add_embeddings calls.                                                   *)

Calls == [document_id : Docs, pair : Pairs]

CallSeqs == UNION {[1..n -> Calls] : n \in 0..MaxIndex}

\* the store after a sequence of one-pair add_embeddings calls
RECURSIVE StoreAfter(_)
StoreAfter(calls) ==
    IF calls = <<>>
    THEN [index |-> <<>>, metadata |-> EmptyMap,
          disk_index |-> <<>>, disk_metadata |-> EmptyMap, ret |-> TRUE]
    ELSE LET s == StoreAfter(SubSeq(calls, 1, Len(calls) - 1))
             c == calls[Len(calls)]
         IN  AddToFaiss(s.index, s.metadata, s.disk_index, s.disk_metadata,
                        c.document_id, <<c.pair.chunk>>, <<c.pair.vec>>, "none")

InitQuery ==
    /\ \E calls \in CallSeqs :
         LET s == StoreAfter(calls)
         IN  /\ index = s.index
             /\ metadata = s.metadata
             /\ disk_index = s.disk_index
             /\ disk_metadata = s.disk_metadata
    /\ last = Idle
    /\ peer = PeerIdle
    /\ storage = EmptyMap
    /\ collection = <<>>

NextQuery ==
    \/ \E q \in SearchQueries, k \in 1..MaxK, d \in Filters : Search(q, k, d)
    \/ Return

SpecQuery == InitQuery /\ [][NextQuery]_vars

----------------------------------------------------------------------------
(* get_document_chunks over a store of chunks as the chunker numbers them. *)

ChunkCalls == [document_id : Docs, pair : ChunkPairs]

ChunkCallSeqs == UNION {[1..n -> ChunkCalls] : n \in 0..MaxChunks}

InitChunks ==
    /\ \E calls \in ChunkCallSeqs :
         LET s == StoreAfter(calls)
         IN  /\ index = s.index
             /\ metadata = s.metadata
             /\ disk_index = s.disk_index
             /\ disk_metadata = s.disk_metadata
    /\ last = Idle
    /\ peer = PeerIdle
    /\ storage = EmptyMap
    /\ collection = <<>>

NextChunks ==
    \/ \E d \in Docs : GetDocumentChunks(d)
    \/ Return

SpecChunks == InitChunks /\ [][NextChunks]_vars

----------------------------------------------------------------------------
(* The validator over a store built by earlier add_embeddings calls.       *)

StoreCalls == [document_id : Docs, pair : BatchPairs]

StoreCallSeqs == UNION {[1..n -> StoreCalls] : n \in 0..MaxStore}

InitQA ==
    /\ \E calls \in StoreCallSeqs :
         LET s == StoreAfter(calls)
         IN  /\ index = s.index
             /\ metadata = s.metadata
             /\ disk_index = s.disk_index
             /\ disk_metadata = s.disk_metadata
    /\ last = Idle
    /\ peer = PeerIdle
    /\ storage = EmptyMap
    /\ collection = <<>>

NextQA ==
    \/ \E d \in Filters, t \in Texts : ValidateSummary(d, t)
    \/ \E d \in Docs, o \in SummariesObjects : ValidateAllSummaries(d, o)
    \/ Return

SpecQA == InitQA /\ [][NextQA]_vars

\* validate_summary and the embedding provider as two parties: the caller
\* takes a result as soon as there is one (the validator's own code between
\* two requests is part of ProviderAnswers); nothing obliges the provider to
\* answer.
NextLive ==
    \/ \E d \in Docs, t \in Texts : CallValidate(d, t)
    \/ ProviderAnswers
    \/ Return

SpecLive == InitQA /\ [][NextLive]_vars /\ WF_vars(Return)

\* Long summaries: up to three runs of equal sentences, a sentence being too
\* short to be examined, or just long enough and embedded as V2 or as Q1.
LongSentences == {[chars |-> 19, embedding |-> None],
                  [chars |-> 20, embedding |-> V2],
                  [chars |-> 20, embedding |-> Q1]}

Run(sentence, n) == [i \in 1..n |-> sentence]

LongTexts ==
    {[embedding |-> Q1,
      sentences |-> Run(a, r[1]) \o Run(b, r[2]) \o Run(c, r[3])] :
        a \in LongSentences, b \in LongSentences, c \in LongSentences,
        r \in {s \in (0..MaxLongText) \X (0..MaxLongText) \X (0..MaxLongText) :
                  s[1] + s[2] + s[3] <= MaxLongText}}

\* the stores of a document with the chunks c1 and c2
LongStoreCalls ==
    {calls \in StoreCallSeqs :
        \A i \in 1..Len(calls) :
            /\ calls[i].document_id = "doc-1"
            /\ calls[i].pair.vec \in {V1, V2}
            /\ calls[i].pair.chunk.chunk_id # NoKey}

InitSentences ==
    /\ \E calls \in LongStoreCalls :
         LET s == StoreAfter(calls)
         IN  /\ index = s.index
             /\ metadata = s.metadata
             /\ disk_index = s.disk_index
             /\ disk_metadata = s.disk_metadata
    /\ last = Idle
    /\ peer = PeerIdle
    /\ storage = EmptyMap
    /\ collection = <<>>

NextSentences ==
    \/ \E d \in Docs, t \in LongTexts : ValidateSummary(d, t)
    \/ Return

SpecSentences == InitSentences /\ [][NextSentences]_vars

\* Summaries objects with several bullets and up to MaxSections section
\* entries, in two runs of equal entries.
SectionEntries == {NoSummary, Entry(T_near), Entry(T_sentence)}

SectionLists ==
    {Run(a, r[1]) \o Run(b, r[2]) :
        a \in SectionEntries, b \in SectionEntries,
        r \in {s \in (0..MaxSections) \X (0..MaxSections) : s[1] + s[2] <= MaxSections}}

ReportObjects ==
    [overview : {<<>>, <<T_near>>},
     bullets : {<<>>, <<[joinable |-> TRUE, lines |-> <<T_sentence, T_near>>]>>},
     sections : {<<>>} \cup {<<l>> : l \in SectionLists}]

NextReport ==
    \/ \E d \in Docs, o \in ReportObjects : ValidateAllSummaries(d, o)
    \/ Return

SpecReport == InitSentences /\ [][NextReport]_vars

----------------------------------------------------------------------------
(* The upload and chunk endpoints (backend/api/upload.py, api/chunk.py)    *)
(* over the S3 bucket and the local chunk files.                           *)

Megabyte == 1024 * 1024

\* Settings as core/config.py declares them
DefaultSettings ==
    [chunk_size |-> 1000, chunk_overlap |-> 200,
     min_chunk_size |-> 500, max_chunk_size |-> 1500, max_file_size_mb |-> 30]

\* Settings as an environment sets them: sizes in characters about four
\* times the limits in tokens
TunedSettings ==
    [chunk_size |-> 4000, chunk_overlap |-> 200,
     min_chunk_size |-> 100, max_chunk_size |-> 900, max_file_size_mb |-> 30]

\* os.path.splitext(filename)[1].lower().lstrip("."), the file name being
\* "report" followed by a dot and the extension when there is one
GetFileExtension(filename) ==
    IF filename.ext = "PDF" THEN "pdf" ELSE filename.ext

IsValidDocumentFormat(filename) == GetFileExtension(filename) \in {"pdf", "docx"}

\* validate_file_size with a limit one megabyte too high
ValidateFileSizeLenient(size, max_size_mb) == size <= (max_size_mb + 1) * Megabyte

\* size_mb = getsize / (1024 * 1024); size_mb <= max_size_mb
ValidateFileSize(size, max_size_mb) == size <= max_size_mb * Megabyte

\* the uploaded files: the extension of the file name as the client wrote
\* it, the size in bytes, and the length in characters of the text the
\* extractor finds
UploadedFiles ==
    [filename : [ext : {"pdf", "PDF", "docx", "txt", ""}],
     size : {Megabyte, 30 * Megabyte, 30 * Megabyte + 1, 35 * Megabyte},
     chars : {0, 99, 100, 1000, 2600, 4600}]

Key(document_id, name) == <<document_id, name>>

Put(store, key, content) ==
    [k \in DOMAIN store \cup {key} |-> IF k = key THEN content ELSE store[k]]

\* uuid4: an id no stored document has
FreshIds(store) == Docs \ {k[1] : k \in DOMAIN store}

\* POST /upload
Upload(settings, file) ==
    /\ last.op = "idle"
    /\ IF ~IsValidDocumentFormat(file.filename)
       THEN /\ last' = [op |-> "upload", file |-> file, status |-> 400,
                        detail |-> "Unsupported file format", document_id |-> ""]
            /\ UNCHANGED storage
       ELSE IF ~ValidateFileSize(file.size, settings.max_file_size_mb)
       THEN /\ last' = [op |-> "upload", file |-> file, status |-> 400,
                        detail |-> "File size exceeds maximum", document_id |-> ""]
            /\ UNCHANGED storage
       ELSE IF file.chars < 100
       THEN /\ last' = [op |-> "upload", file |-> file, status |-> 400,
                        detail |-> "Error extracting text", document_id |-> ""]
            /\ UNCHANGED storage
       ELSE \E document_id \in FreshIds(storage) :
            /\ storage' =
                 Put(Put(Put(storage,
                     Key(document_id, "original"), [size |-> file.size]),
                     Key(document_id, "extracted_text.txt"), [chars |-> file.chars]),
                     Key(document_id, "metadata.json"),
                        [document_id |-> document_id, text_length |-> file.chars])
            /\ last' = [op |-> "upload", file |-> file, status |-> 200,
                        detail |-> "uploaded", document_id |-> document_id]
    /\ UNCHANGED <<index, metadata, disk_index, disk_metadata, peer, collection>>

\* len(text) // 4
EstimateTokens(chars) == chars \div 4

\* RecursiveCharacterTextSplitter on a text without separators: pieces of
\* chunk_size characters, each starting chunk_overlap before the end of the
\* one before; no piece is ever longer than chunk_size
RECURSIVE SplitText(_, _, _)
SplitText(chars, chunk_size, chunk_overlap) ==
    IF chars = 0 THEN <<>>
    ELSE IF chars <= chunk_size THEN <<chars>>
    ELSE <<chunk_size>> \o SplitText(chars - (chunk_size - chunk_overlap),
                                     chunk_size, chunk_overlap)

\* f"{document_id}_chunk_{chunk_index}", the index printed as "3", or as
\* "3_0" for a piece of an oversized chunk
GenerateChunkId(document_id, chunk_index) ==
    document_id \o "_chunk_" \o
        (IF chunk_index.kind = "int" THEN ToString(chunk_index.n)
         ELSE ToString(chunk_index.n) \o "_" \o ToString(chunk_index.sub))

RECURSIVE SubChunks(_, _, _, _, _)
SubChunks(settings, pieces, document_id, base_index, sub_idx) ==
    IF pieces = <<>> THEN <<>>
    ELSE LET token_count == EstimateTokens(Head(pieces))
             rest == SubChunks(settings, Tail(pieces), document_id, base_index, sub_idx + 1)
         IN  IF token_count < settings.min_chunk_size THEN rest
             ELSE <<[chunk_id |-> GenerateChunkId(document_id, StrIndex(base_index, sub_idx)),
                     chunk_index |-> StrIndex(base_index, sub_idx),
                     text_length |-> Head(pieces),
                     token_count |-> token_count]>> \o rest

\* ChunkerService._split_oversized_chunk
SplitOversizedChunk(settings, chars, document_id, base_index) ==
    SubChunks(settings,
              SplitText(chars, settings.max_chunk_size - 100, settings.chunk_overlap),
              document_id, base_index, 0)

\* the loop of chunk_text over the splitter's segments, idx counting from 0
RECURSIVE ChunkLoop(_, _, _, _)
ChunkLoop(settings, segments, document_id, idx) ==
    IF segments = <<>> THEN <<>>
    ELSE LET token_count == EstimateTokens(Head(segments))
             rest == ChunkLoop(settings, Tail(segments), document_id, idx + 1)
         IN  IF token_count < settings.min_chunk_size THEN rest
             ELSE IF token_count > settings.max_chunk_size
             THEN SplitOversizedChunk(settings, Head(segments), document_id, idx) \o rest
             ELSE <<[chunk_id |-> GenerateChunkId(document_id, IntIndex(idx)),
                     chunk_index |-> IntIndex(idx),
                     text_length |-> Head(segments),
                     token_count |-> token_count]>> \o rest

\* ChunkerService.chunk_text
ChunkText(settings, chars, document_id) ==
    ChunkLoop(settings, SplitText(chars, settings.chunk_size, settings.chunk_overlap),
              document_id, 0)

\* ChunkMetadata declares chunk_index: int. An integer passes; the string
\* "3_0" is an error, or is read as the integer 30 where the installed
\* validator parses strings the way int() does.
ChunkMetadataOutcomes(chunks) ==
    IF \E i \in DOMAIN chunks : chunks[i].chunk_index.kind = "str"
    THEN {"error", "ok"}
    ELSE {"ok"}

\* POST /chunk/{document_id}
ChunkDocument(settings, document_id) ==
    /\ last.op = "idle"
    /\ IF Key(document_id, "extracted_text.txt") \notin DOMAIN storage
       THEN /\ last' = [op |-> "chunk", document_id |-> document_id, status |-> 404,
                        detail |-> "not found", total_chunks |-> 0]
            /\ UNCHANGED storage
       ELSE \E chunks \in {ChunkText(settings,
                               storage[Key(document_id, "extracted_text.txt")].chars,
                               document_id)} :
            IF chunks = <<>>
            THEN \* the HTTPException(400) is raised inside the try block and
                 \* caught by its except Exception clause
                 /\ last' = [op |-> "chunk", document_id |-> document_id, status |-> 500,
                             detail |-> "Error chunking document: 400: No valid chunks generated from document",
                             total_chunks |-> 0]
                 /\ UNCHANGED storage
            ELSE /\ storage' =
                      Put(Put(storage,
                          Key(document_id, "local_chunks.json"), chunks),
                          Key(document_id, "chunks.json"), chunks)
                 /\ \E outcome \in ChunkMetadataOutcomes(chunks) :
                      last' = IF outcome = "error"
                              THEN [op |-> "chunk", document_id |-> document_id,
                                    status |-> 500,
                                    detail |-> "Error chunking document: validation error",
                                    total_chunks |-> 0]
                              ELSE [op |-> "chunk", document_id |-> document_id,
                                    status |-> 200, detail |-> "chunked",
                                    total_chunks |-> Len(chunks)]
    /\ UNCHANGED <<index, metadata, disk_index, disk_metadata, peer, collection>>

\* the chunks (or the embeddings) of the pairs whose embedding is not None
RECURSIVE ValidOnes(_, _, _)
ValidOnes(chunks, embeddings, which) ==
    IF chunks = <<>> THEN <<>>
    ELSE (IF Head(embeddings) = None THEN <<>>
          ELSE <<IF which = "chunks" THEN Head(chunks) ELSE Head(embeddings)>>)
         \o ValidOnes(Tail(chunks), Tail(embeddings), which)

\* POST /embed/{document_id}; the embedding provider answers the texts of the
\* request with a vector for every text, or with an error for every one
\* (None after the fallback)
EmbedDocument(document_id, answer) ==
    /\ last.op = "idle"
    /\ IF Key(document_id, "chunks.json") \notin DOMAIN storage
       THEN /\ last' = [op |-> "embed", document_id |-> document_id, status |-> 404,
                        total_embeddings |-> 0]
            /\ UNCHANGED <<index, metadata, disk_index, disk_metadata>>
       ELSE LET chunks == storage[Key(document_id, "chunks.json")]
                embeddings == [i \in 1..Len(chunks) |->
                                  IF answer = "vectors" THEN V1 ELSE None]
                valid_chunks == ValidOnes(chunks, embeddings, "chunks")
                valid_embeddings == ValidOnes(chunks, embeddings, "embeddings")
            IN  IF chunks = <<>>
                THEN /\ last' = [op |-> "embed", document_id |-> document_id,
                                 status |-> 400, total_embeddings |-> 0]
                     /\ UNCHANGED <<index, metadata, disk_index, disk_metadata>>
                ELSE IF valid_embeddings = <<>>
                THEN /\ last' = [op |-> "embed", document_id |-> document_id,
                                 status |-> 500, total_embeddings |-> 0]
                     /\ UNCHANGED <<index, metadata, disk_index, disk_metadata>>
                ELSE /\ ntotal(index) + Len(valid_chunks) <= MaxEmbedded
                     /\ \E r \in {AddToFaiss(index, metadata, disk_index, disk_metadata,
                                             document_id, valid_chunks, valid_embeddings,
                                             "none")} :
                           /\ index' = r.index
                           /\ metadata' = r.metadata
                           /\ disk_index' = r.disk_index
                           /\ disk_metadata' = r.disk_metadata
                           /\ last' = [op |-> "embed", document_id |-> document_id,
                                       status |-> IF r.ret THEN 200 ELSE 500,
                                       total_embeddings |->
                                           IF r.ret THEN Len(valid_embeddings) ELSE 0]
    /\ UNCHANGED <<peer, storage, collection>>

NextEmbed ==
    \/ \E file \in {f \in UploadedFiles : /\ f.filename.ext = "pdf"
                                            /\ f.size = Megabyte
                                            /\ f.chars \in {100, 1000, 4600}} :
            Upload(TunedSettings, file)
    \/ \E document_id \in Docs : ChunkDocument(TunedSettings, document_id)
    \/ \E document_id \in Docs, answer \in {"vectors", "errors"} :
            EmbedDocument(document_id, answer)
    \/ Return

SpecEmbed == Init /\ [][NextEmbed]_vars

NextPipeline ==
    \/ \E file \in UploadedFiles : Upload(DefaultSettings, file)
    \/ \E document_id \in Docs : ChunkDocument(DefaultSettings, document_id)
    \/ Return

SpecPipeline == Init /\ [][NextPipeline]_vars

NextTuned ==
    \/ \E file \in UploadedFiles : Upload(TunedSettings, file)
    \/ \E document_id \in Docs : ChunkDocument(TunedSettings, document_id)
    \/ Return

SpecTuned == Init /\ [][NextTuned]_vars

----------------------------------------------------------------------------
(* Properties of the upload and chunk endpoints (checked under SpecPipeline *)
(* and SpecTuned)                                                          *)

Uploaded == last.op = "upload"

\* the extension as the claim reads it: pdf or docx in any letter case
Supported(file) == file.filename.ext \in {"pdf", "PDF", "docx"}

TooLarge(file) == file.size > 30 * Megabyte

\* C21: an upload whose file name has an extension other than pdf and docx,
\* or whose size is above max_file_size_mb megabytes, is answered with HTTP
\* 400 and leaves the storage as it was: no original file, no extracted
\* text and no metadata object is written, and no document id is handed out.
C21_RejectedUploadStoresNothing ==
    [][last'.op = "upload" /\ (~Supported(last'.file) \/ TooLarge(last'.file))
        => /\ last'.status = 400
           /\ last'.document_id = ""
           /\ storage' = storage]_vars

\* an upload of a file one byte above the limit has been rejected, and one
\* with a .txt name
C21_Witness ==
    /\ Uploaded
    /\ last.status = 400
    /\ \/ Supported(last.file) /\ last.file.size = 30 * Megabyte + 1 /\ last.file.chars >= 100
       \/ last.file.filename.ext = "txt" /\ last.file.size = Megabyte /\ last.file.chars >= 100
    /\ storage # EmptyMap

Chunked == last.op = "chunk"

TextKey(document_id) == Key(document_id, "extracted_text.txt")

\* C28: when chunking yields no valid chunk the chunk endpoint answers HTTP
\* 400 and stores no chunks file, locally or in S3; and whenever it has
\* stored chunks it answers with success, a composite string chunk_index
\* among them included.
C28_ChunksStoredIffSuccess ==
    [][last'.op = "chunk" /\ TextKey(last'.document_id) \in DOMAIN storage
        => /\ ChunkText(TunedSettings, storage[TextKey(last'.document_id)].chars,
                        last'.document_id) = <<>>
                => last'.status = 400 /\ storage' = storage
           /\ storage' # storage => last'.status = 200]_vars

\* C30: with the default configuration the chunk endpoint gives at least one
\* chunk to every uploaded document whose text is long enough for a chunk of
\* min_chunk_size tokens, so that the document can go on to be embedded.
C30_UploadedDocumentIsChunked ==
    Chunked /\ TextKey(last.document_id) \in DOMAIN storage
            /\ EstimateTokens(storage[TextKey(last.document_id)].chars)
                    >= DefaultSettings.min_chunk_size
        => last.status = 200 /\ last.total_chunks >= 1

----------------------------------------------------------------------------
(* Properties of add_embeddings (checked under Spec) *)

StoreUnchanged ==
    /\ index' = index
    /\ metadata' = metadata
    /\ disk_index' = disk_index
    /\ disk_metadata' = disk_metadata

AddReturns == last.op = "idle" /\ last'.op = "add" /\ last'.outcome = "returned"

\* the store holds the call's pairs at the positions after the old ones, in
\* memory and in both files
PairsRecorded ==
    /\ index' = index \o last'.embeddings
    /\ DOMAIN metadata' = DOMAIN metadata \cup
           {ntotal(index) + i - 1 : i \in 1..Len(last'.chunks)}
    /\ \A i \in 1..Len(last'.chunks) :
           /\ metadata'[ntotal(index) + i - 1].document_id = last'.document_id
           /\ metadata'[ntotal(index) + i - 1].chunk_id = last'.chunks[i].chunk_id
    /\ disk_index' = index'
    /\ disk_metadata' = metadata'

SearchesUnchanged ==
    \A q \in QueryVecs, k \in 1..MaxK, d \in Filters :
        SearchFaiss(index', metadata', q, k, d) = SearchFaiss(index, metadata, q, k, d)

\* C6: add_embeddings is atomic per call: a call that returns False leaves the
\* in-memory index and metadata and both persisted files as they were, and no
\* search answers differently after it; a call that returns True has recorded
\* all of its pairs.
C6_AddIsAtomic ==
    [][AddReturns =>
          IF last'.ret THEN PairsRecorded
          ELSE StoreUnchanged /\ SearchesUnchanged]_vars

HasWrongDimension(embeddings) ==
    \E i \in 1..Len(embeddings) : Len(embeddings[i]) # embedding_dim

\* C7: an add_embeddings call carrying a vector whose length is not the
\* configured dimension raises to the caller and stores nothing; every vector
\* in the index has the configured dimension.
C7_DimensionMismatchRaises ==
    [][/\ (last.op = "idle" /\ last'.op = "add" /\ HasWrongDimension(last'.embeddings))
           => (last'.outcome = "raised" /\ StoreUnchanged)
       /\ \A i \in 1..Len(index') : Len(index'[i]) = embedding_dim]_vars

\* C13: positions are assigned densely and monotonically. The i-th pair of a
\* call that returns True is recorded at position (size before the call) + i,
\* after it the positions that carry metadata are exactly 0..size-1, and no
\* call changes the vector or the metadata of a position assigned earlier.
C13_PositionsDenseAndStable ==
    [][/\ (AddReturns /\ last'.ret) =>
              /\ \A i \in 1..Len(last'.chunks) :
                     /\ index'[ntotal(index) + i] = last'.embeddings[i]
                     /\ (ntotal(index) + i - 1) \in DOMAIN metadata'
                     /\ metadata'[ntotal(index) + i - 1].chunk_id = last'.chunks[i].chunk_id
              /\ DOMAIN metadata' = Positions(index')
       /\ (last'.op = "add") =>
              /\ SubSeq(index', 1, ntotal(index)) = index
              /\ \A p \in DOMAIN metadata :
                     p \in DOMAIN metadata' /\ metadata'[p] = metadata[p]]_vars

\* C14: when add_embeddings has returned True, a store constructed from the
\* two files holds the vectors and the metadata of the store in memory; and
\* at all times the metadata file has an entry for exactly the positions of
\* the index file.
C14_PersistedBeforeSuccess ==
    /\ (last.op = "add" /\ last.outcome = "returned" /\ last.ret) =>
           InitFaiss(disk_index, disk_metadata) = [index |-> index, metadata |-> metadata]
    /\ DOMAIN disk_metadata = Positions(disk_index)

\* the positions the last call of the first process wrote its pairs to
LastPositions == (ntotal(index) - Len(last.chunks))..(ntotal(index) - 1)

PeerPositions == peer.start_idx..(peer.start_idx + Len(peer.chunks) - 1)

\* the files hold the given pairs at the positions from start_idx on
Persisted(document_id, chunks, embeddings, start_idx) ==
    \A i \in 1..Len(chunks) :
        /\ start_idx + i <= Len(disk_index)
        /\ disk_index[start_idx + i] = embeddings[i]
        /\ (start_idx + i - 1) \in DOMAIN disk_metadata
        /\ disk_metadata[start_idx + i - 1].document_id = document_id
        /\ disk_metadata[start_idx + i - 1].chunk_id = chunks[i].chunk_id

BothReturnedTrue ==
    /\ last.op = "add" /\ last.outcome = "returned" /\ last.ret
    /\ peer.pc = "returned"

\* C15: when an add_embeddings call of each of two processes sharing the
\* files has returned True, the two calls gave their pairs different
\* positions, and the persisted index and metadata hold the pairs of both.
C15_InsertsSerialized ==
    BothReturnedTrue =>
        /\ LastPositions \cap PeerPositions = {}
        /\ Persisted(last.document_id, last.chunks, last.embeddings,
                     ntotal(index) - Len(last.chunks))
        /\ Persisted(peer.document_id, peer.chunks, peer.embeddings, peer.start_idx)

----------------------------------------------------------------------------
(* Properties of search_similar (checked under SpecQuery) *)

Searched == last.op = "search"

\* the number of (chunk, vector) pairs recorded for a document
Inserted(document_id) ==
    Cardinality({p \in DOMAIN metadata : metadata[p].document_id = document_id})

\* C8: a search filtered by document D returns at most as many results as D
\* has inserted pairs, and only chunks of D, for every D including "".
C8_FilterIsolatesDocument ==
    Searched =>
        /\ Len(last.results) <= Inserted(last.document_id)
        /\ \A i \in 1..Len(last.results) :
               last.results[i].document_id = last.document_id

RatPositive(x) == x[1] > 0
RatAtMostOne(x) == x[1] <= x[2]

AllEntriesOf(document_id) ==
    \A p \in Positions(index) :
        p \in DOMAIN metadata /\ metadata[p].document_id = document_id

Min(a, b) == IF a < b THEN a ELSE b

\* results are the entries at distinct positions f[1], f[2], ... and no other
\* entry is nearer to the query than the last of them
AreNearest(r, q) ==
    \E f \in [1..Len(r) -> Positions(index)] :
        /\ \A i, j \in 1..Len(r) : i # j => f[i] # f[j]
        /\ \A i \in 1..Len(r) :
               /\ r[i].chunk_id = metadata[f[i]].chunk_id
               /\ r[i].distance = L2Sqr(index[f[i] + 1], q)
        /\ \A p \in Positions(index) :
               (\A i \in 1..Len(r) : f[i] # p) =>
                   \A i \in 1..Len(r) : r[i].distance <= L2Sqr(index[p + 1], q)

\* the store of the example: [1,0], [0,1], [0.9,0.1] inserted in that order for doc-1
ExampleStore ==
    /\ index = <<V1, V2, V3>>
    /\ AllEntriesOf("doc-1")
    /\ metadata[0].chunk_id = "c1"
    /\ metadata[1].chunk_id = "c2"
    /\ metadata[2].chunk_id = "c3"

ExampleSearch ==
    /\ Searched
    /\ ExampleStore
    /\ last.query = Q1
    /\ last.top_k = 2
    /\ last.document_id = "doc-1"

\* C10: when every index entry belongs to document D, a search filtered by D
\* with a query of the index's dimension returns exactly the min(k, N)
\* entries nearest to the query, nearest first; in the example the 1st
\* chunk, then the 3rd, and not the 2nd.
C10_NearestOfDocument ==
    /\ (Searched /\ Len(last.query) = embedding_dim /\ AllEntriesOf(last.document_id)) =>
           LET r == last.results
           IN  /\ Len(r) = Min(last.top_k, ntotal(index))
               /\ \A i, j \in 1..Len(r) : (i < j) => r[i].distance <= r[j].distance
               /\ AreNearest(r, last.query)
    /\ ExampleSearch =>
           [i \in 1..Len(last.results) |-> last.results[i].chunk_id] = <<"c1", "c3">>

\* the example search of the claim has been answered
C10_Witness == ExampleSearch

\* the chunk_index as the text that Python compares: str(n) or "n_sub"
IndexText(ci) == IF ci.kind = "int" THEN Digits(ci.n) ELSE StrCodes(ci)

\* the order the claim gives the chunks of a document
Ascending(chunks) ==
    IF \E i \in 1..Len(chunks) : chunks[i].chunk_index.kind = "str"
    THEN \A i, j \in 1..Len(chunks) :
             (i < j) => ~LexLt(IndexText(chunks[j].chunk_index),
                               IndexText(chunks[i].chunk_index))
    ELSE \A i, j \in 1..Len(chunks) :
             (i < j) => chunks[i].chunk_index.n <= chunks[j].chunk_index.n

\* C19: get_document_chunks(D) returns a sequence and does not fail; the
\* sequence holds exactly the stored entries whose document_id is D, in
\* ascending order of chunk_index: as text when a composite index is among
\* them, as integers otherwise.
C19_ChunksOrdered ==
    (last.op = "chunks") =>
        /\ last.outcome = "returned"
        /\ \E f \in [1..Len(last.chunks) -> DOMAIN metadata] :
               /\ \A i, j \in 1..Len(last.chunks) : (i # j) => (f[i] # f[j])
               /\ \A i \in 1..Len(last.chunks) : last.chunks[i] = metadata[f[i]]
               /\ \A p \in DOMAIN metadata :
                      (metadata[p].document_id = last.document_id)
                          <=> (\E i \in 1..Len(last.chunks) : f[i] = p)
        /\ Ascending(last.chunks)

\* C11: search_similar never raises. It returns at most top_k results; on an
\* empty index, and for a document filter (non-empty) that no inserted chunk
\* carries, it returns the empty list; when fewer than top_k chunks carry the
\* filter it returns at most that many, all of that document.
C11_SearchNeverRaises ==
    Searched =>
        /\ last.outcome = "returned"
        /\ Len(last.results) <= last.top_k
        /\ (index = <<>>) => (last.results = <<>>)
        /\ (last.document_id # "") =>
               /\ (Inserted(last.document_id) = 0) => (last.results = <<>>)
               /\ Len(last.results) <= Inserted(last.document_id)
               /\ \A i \in 1..Len(last.results) :
                      last.results[i].document_id = last.document_id

\* a search with top_k = 2 for a document that has a single chunk, in an index
\* that also holds other chunks, returned that one chunk
C11_Witness ==
    /\ Searched
    /\ last.top_k = 2
    /\ last.document_id # ""
    /\ Inserted(last.document_id) = 1
    /\ ntotal(index) >= 2
    /\ Len(last.results) = 1

----------------------------------------------------------------------------
(* Properties of validate_summary and validate_all_summaries (checked      *)
(* under SpecQA)                                                           *)

Validated == last.op = "validate"

\* the call got past both early returns
Assessed == Validated /\ last.result.error = NoKey

IssuesOfType(result, type) ==
    {i \in 1..Len(result.hallucinations) : result.hallucinations[i].type = type}

\* C1: for every validate_summary call that reaches the assessment, valid is
\* true exactly when overall_similarity >= threshold and the hallucinations
\* list is empty; when overall_similarity < threshold there is a
\* low_similarity issue and valid is false.
C1_ValidIffSimilarAndNoIssues ==
    Assessed =>
        LET r == last.result
        IN  /\ r.valid <=> (RatGe(r.overall_similarity, similarity_threshold)
                              /\ r.hallucinations = <<>>)
            /\ RatLt(r.overall_similarity, similarity_threshold) =>
                   (IssuesOfType(r, "low_similarity") # {} /\ ~r.valid)

\* a summary at or above the threshold overall with a flagged sentence,
\* reported invalid
C1_Witness ==
    /\ Assessed
    /\ RatGe(last.result.overall_similarity, similarity_threshold)
    /\ IssuesOfType(last.result, "sentence_level") # {}
    /\ ~last.result.valid

\* the whole-summary evidence could not be gathered
SummaryEvidenceFailed ==
    \/ last.text.embedding = None
    \/ SearchFaiss(index, metadata, last.text.embedding, SummaryTopK,
                   last.document_id) = <<>>

\* C2: when the embedding of the whole summary fails, or the filtered search
\* for it returns no chunks, the result is invalid with a non-empty error and
\* an empty hallucinations list, and no sentence is embedded.
C2_CannotValidateIsAnError ==
    (Validated /\ SummaryEvidenceFailed) =>
        /\ ~last.result.valid
        /\ last.result.error \notin {NoKey, ""}
        /\ last.result.hallucinations = <<>>
        /\ last.embed_calls = 0

\* the embedding succeeded, the search found nothing, and the text has a
\* sentence long enough to be examined
C2_Witness ==
    /\ Validated
    /\ last.text.embedding # None
    /\ last.result.error = "No matching chunks found in document"
    /\ \E i \in 1..Len(last.text.sentences) : last.text.sentences[i].chars >= MinSentenceChars

\* evidence gathering fails for the i-th sentence of the text of the call
SentenceEvidenceFailed(i) ==
    LET sentence == last.text.sentences[i]
    IN  \/ sentence.embedding = None
        \/ SearchFaiss(index, metadata, sentence.embedding, SentenceTopK,
                       last.document_id) = <<>>

Examined(i) ==
    /\ i \in 1..Len(First(last.text.sentences, SentenceLimit))
    /\ last.text.sentences[i].chars >= MinSentenceChars

\* C3: if evidence gathering fails for an examined sentence, the result is
\* invalid and carries an error description.
C3_SentenceFailureSurfaced ==
    (Assessed /\ \E i \in 1..Len(last.text.sentences) :
                     Examined(i) /\ SentenceEvidenceFailed(i))
        => (~last.result.valid /\ last.result.error # NoKey)

\* C12: when the document of the call has at least one inserted chunk,
\* validate_summary does not return the "No matching chunks found in document"
\* error, whatever else the index holds and whatever the search did.
C12_NoMatchOnlyWithoutVectors ==
    (Validated /\ last.document_id # "" /\ Inserted(last.document_id) >= 1) =>
        last.result.error # "No matching chunks found in document"

\* C17: no sentence returned by _split_into_sentences ends with ".", "!" or
\* "?", the last sentence of the text included, and the example text yields
\* exactly its three sentences without their punctuation.
C17_NoTrailingPunctuation ==
    (last.op = "split") =>
        /\ \A i \in 1..Len(last.sentences) :
               ~IsPunct(last.sentences[i][Len(last.sentences[i])])
        /\ (last.text = ExampleText) => (last.sentences = ExampleSentences)

\* C18: every low_similarity issue of validate_summary has severity "high"
\* if overall_similarity < 0.5 and "medium" otherwise, and records the
\* threshold 0.7 and the overall similarity; 0.42 gives high, 0.65 and
\* exactly 0.5 give medium.
C18_SeverityRule ==
    /\ Assessed =>
           \A i \in IssuesOfType(last.result, "low_similarity") :
               LET issue == last.result.hallucinations[i]
               IN  /\ issue.severity =
                          (IF RatLt(last.result.overall_similarity, <<1, 2>>)
                           THEN "high" ELSE "medium")
                   /\ issue.threshold = <<7, 10>>
                   /\ issue.actual_similarity = last.result.overall_similarity
    /\ LowSimilarityIssues(<<21, 50>>)[1].severity = "high"
    /\ LowSimilarityIssues(<<13, 20>>)[1].severity = "medium"
    /\ LowSimilarityIssues(<<1, 2>>)[1].severity = "medium"

\* a summary at overall similarity exactly 0.5 got a low_similarity issue of
\* severity medium
C18_Witness ==
    /\ Assessed
    /\ last.result.overall_similarity = <<1, 2>>
    /\ \E i \in IssuesOfType(last.result, "low_similarity") :
           last.result.hallucinations[i].severity = "medium"

\* C20: validate_summary does not block indefinitely: every call that has
\* started returns a result, also when the embedding provider never answers.
C20_ValidationReturns ==
    (last.op = "validating") ~> (last.op = "validate")

ValidatedAll == last.op = "validate_all"

Reported == ValidatedAll /\ last.outcome = "returned"

Produced(report) ==
    {v \in {report.overview_validation, report.bullets_validation,
            report.sections_validation} : v # <<>>}

\* C4: the report holds a result for exactly the keys present in the
\* summaries object, None for the others, and overall_valid is true if and
\* only if every produced result is valid (so it is true when none is).
C4_OverallValidIsConjunction ==
    Reported =>
        LET report == last.report
        IN  /\ (report.overview_validation # <<>>) <=> (last.summaries.overview # <<>>)
            /\ (report.bullets_validation # <<>>) <=> (last.summaries.bullets # <<>>)
            /\ (report.sections_validation # <<>>) <=> (last.summaries.sections # <<>>)
            /\ report.overall_valid <=> \A v \in Produced(report) : v[1].valid

\* overview and bullets are valid, sections are absent, the report is valid
C4_Witness ==
    /\ Reported
    /\ last.summaries.sections = <<>>
    /\ last.report.sections_validation = <<>>
    /\ last.report.overview_validation # <<>>
    /\ last.report.bullets_validation # <<>>
    /\ last.report.overall_valid

\* C5: validate_all_summaries never raises for the failure of one
\* granularity: it returns a report in which every present granularity has a
\* result.
C5_NeverRaises ==
    ValidatedAll =>
        /\ last.outcome = "returned"
        /\ (last.summaries.overview # <<>>) => (last.report.overview_validation # <<>>)
        /\ (last.summaries.bullets # <<>>) => (last.report.bullets_validation # <<>>)
        /\ (last.summaries.sections # <<>>) => (last.report.sections_validation # <<>>)

----------------------------------------------------------------------------
(* Properties of the sentence loop and of the issues of validate_summary   *)
(* (checked under SpecSentences and SpecQA)                                *)

\* the numbers of the sentences of at least 20 characters, in summary order
RECURSIVE LongEnough(_, _)
LongEnough(sentences, i) ==
    IF i > Len(sentences) THEN <<>>
    ELSE IF sentences[i].chars >= 20
         THEN <<i>> \o LongEnough(sentences, i + 1)
         ELSE LongEnough(sentences, i + 1)

\* C22: the sentences shorter than 20 characters are discarded, and of those
\* that remain exactly the first 10 are examined, however many short
\* sentences come before them.
C22_FirstTenLongSentencesExamined ==
    Assessed =>
        LET kept == LongEnough(last.text.sentences, 1)
        IN  last.examined = SubSeq(kept, 1, IF Len(kept) < 10 THEN Len(kept) ELSE 10)

\* the similarities of the neighbours of the i-th sentence of the call
Neighbours(i) ==
    Similarities(SearchFaiss(index, metadata, last.text.sentences[i].embedding,
                              SentenceTopK, last.document_id))

\* the i-th sentence was examined and its neighbours were found
Compared(i) ==
    /\ \E j \in 1..Len(last.examined) : last.examined[j] = i
    /\ last.text.sentences[i].embedding # None
    /\ Neighbours(i) # <<>>

SentenceIssues(result) ==
    IF IssuesOfType(result, "sentence_level") = {} THEN <<>>
    ELSE result.hallucinations[CHOOSE k \in IssuesOfType(result, "sentence_level") : TRUE].issues

AllBelow(sims, bound) == \A k \in 1..Len(sims) : RatLt(sims[k], bound)

IsLargest(sims, s) ==
    /\ \E k \in 1..Len(sims) : sims[k] = s
    /\ \A k \in 1..Len(sims) : ~RatLt(s, sims[k])

\* C23: an examined sentence is recorded as an issue if and only if the
\* largest similarity among its at most 3 nearest chunks of the document is
\* strictly below the threshold, so never when one neighbour reaches the
\* threshold; the issue carries the first 100 characters of the sentence,
\* that largest similarity and the threshold.
C23_FlaggedIffBestNeighbourBelow ==
    Assessed =>
        \A i \in 1..Len(last.text.sentences) :
            Compared(i) =>
                LET sims == Neighbours(i)
                    found == {k \in 1..Len(SentenceIssues(last.result)) :
                                 SentenceIssues(last.result)[k].sentence = i}
                IN  /\ Len(sims) <= 3
                    /\ (found # {}) <=> AllBelow(sims, <<7, 10>>)
                    /\ \A k \in found :
                         LET issue == SentenceIssues(last.result)[k]
                         IN  /\ issue.chars = IF last.text.sentences[i].chars <= 100
                                               THEN last.text.sentences[i].chars
                                               ELSE 100
                             /\ IsLargest(sims, issue.similarity)
                             /\ issue.threshold = <<7, 10>>

\* a sentence of more than 100 characters with a neighbour at the threshold
\* or above and the mean of its neighbours below it was examined
C23_Witness ==
    /\ Assessed
    /\ \E i \in 1..Len(last.text.sentences) :
          /\ Compared(i)
          /\ last.text.sentences[i].chars > 100
          /\ ~AllBelow(Neighbours(i), <<7, 10>>)
          /\ RatLt(Mean(Neighbours(i)), <<7, 10>>)

\* the similarities of the chunks found for the whole summary of the call
SummaryNeighbours ==
    Similarities(SearchFaiss(index, metadata, last.text.embedding, SummaryTopK,
                              last.document_id))

\* C24: overall_similarity is the arithmetic mean of the similarities of all
\* the chunks the whole-summary search returned, at most 10 of them, and not
\* the largest: a summary with a neighbour above the threshold and the mean
\* below it gets a low_similarity issue.
C24_OverallIsMean ==
    Assessed =>
        LET sims == SummaryNeighbours
            total == RatSum(sims)
            overall == last.result.overall_similarity
        IN  /\ Len(sims) <= 10
            /\ last.result.similar_chunks_count = Len(sims)
            /\ overall[1] * total[2] * Len(sims) = total[1] * overall[2]
            /\ (overall[1] * 10 < 7 * overall[2])
                  => IssuesOfType(last.result, "low_similarity") # {}

\* one neighbour of the summary is above the threshold, the mean is not,
\* and the issue is there
C24_Witness ==
    /\ Assessed
    /\ ~AllBelow(SummaryNeighbours, <<7, 10>>)
    /\ IssuesOfType(last.result, "low_similarity") # {}

\* the examined sentences that were flagged, in summary order
RECURSIVE FlaggedFrom(_)
FlaggedFrom(examined) ==
    IF examined = <<>> THEN <<>>
    ELSE IF Compared(Head(examined)) /\ AllBelow(Neighbours(Head(examined)), <<7, 10>>)
         THEN <<Head(examined)>> \o FlaggedFrom(Tail(examined))
         ELSE FlaggedFrom(Tail(examined))

\* C25: the hallucinations list holds at most one sentence_level issue, and
\* holds it exactly when a sentence was flagged; its issues are the first
\* min(5, n) of the n flagged sentences in summary order, its description
\* gives the total n even when n > 5; the list never has more than two
\* issues.
C25_OneSentenceLevelIssue ==
    Assessed =>
        LET flagged == FlaggedFrom(last.examined)
            n == Len(flagged)
            level == IssuesOfType(last.result, "sentence_level")
        IN  /\ Cardinality(level) = IF n > 0 THEN 1 ELSE 0
            /\ Len(last.result.hallucinations) <= 2
            /\ \A k \in level :
                 LET issue == last.result.hallucinations[k]
                 IN  /\ issue.count = n
                     /\ Len(issue.issues) = IF n < 5 THEN n ELSE 5
                     /\ \A j \in 1..Len(issue.issues) :
                            issue.issues[j].sentence = flagged[j]

\* more than five sentences were flagged, after one that was not, and the
\* summary has a low_similarity issue as well
C25_Witness ==
    /\ Assessed
    /\ Len(FlaggedFrom(last.examined)) > 5
    /\ FlaggedFrom(last.examined) # last.examined
    /\ Len(last.result.hallucinations) = 2

----------------------------------------------------------------------------
(* Properties of the document filter of both index backends                *)

\* the number of results of document D among the entries listed
RECURSIVE CountOf(_, _)
CountOf(entries, document_id) ==
    IF entries = <<>> THEN 0
    ELSE (IF Head(entries).document_id = document_id THEN 1 ELSE 0)
         + CountOf(Tail(entries), document_id)

\* the 2k nearest entries of the MongoDB collection, whatever their document
MongoCandidates(q, top_k) ==
    MatchStage(collection, VectorSearch(collection, q, top_k * 2, top_k * 2), "")

\* the chunks of document D among the 2k nearest vectors of the flat index
FaissCandidates(q, top_k, document_id) ==
    LET nearest == IndexSearch(index, q, top_k * 2)
    IN  {i \in 1..Len(nearest) :
            /\ nearest[i] \in DOMAIN metadata
            /\ metadata[nearest[i]].document_id = document_id}

\* C26: the document filter is applied to at least 2k nearest candidates,
\* in the MongoDB store as on the flat index: a search for k results
\* filtered by document D returns exactly k results whenever at least k
\* chunks of D are among the 2k nearest entries.
C26_FilterAfterTwiceKCandidates ==
    /\ (last.op = "mongo_search" /\ last.document_id # ""
          /\ CountOf(MongoCandidates(last.query, last.top_k), last.document_id)
                >= last.top_k)
        => Len(last.results) = last.top_k
    /\ (Searched /\ last.document_id # "" /\ Len(last.query) = embedding_dim
          /\ Cardinality(FaissCandidates(last.query, last.top_k, last.document_id))
                >= last.top_k)
        => Len(last.results) = last.top_k

----------------------------------------------------------------------------
(* Properties of validate_all_summaries on lists (checked under SpecReport) *)

\* the summaries of the first five section entries
FirstFiveSummaries(entries) ==
    [i \in 1..(IF Len(entries) < 5 THEN Len(entries) ELSE 5) |-> entries[i].summary[1]]

\* the object with the section entries after the fifth taken away
WithoutLaterSections(summaries) ==
    IF summaries.sections = <<>> THEN summaries
    ELSE [summaries EXCEPT !.sections =
             <<SubSeq(summaries.sections[1], 1,
                      IF Len(summaries.sections[1]) < 5
                      THEN Len(summaries.sections[1]) ELSE 5)>>]

CallsOfType(type) == {i \in 1..Len(last.calls) : last.calls[i].summary_type = type}

\* C27: validate_all_summaries validates each present granularity with
\* exactly one validate_summary call: the bullets as the newline join of all
\* of them under the type "bullets", the sections as the newline join of the
\* summaries of at most the first 5 entries under the type "sections"; the
\* report is the one of the same object without its section entries after
\* the fifth.
C27_OneCallPerGranularity ==
    Reported =>
        /\ Cardinality(CallsOfType("overview")) =
              IF last.summaries.overview = <<>> THEN 0 ELSE 1
        /\ Cardinality(CallsOfType("bullets")) =
              IF last.summaries.bullets = <<>> THEN 0 ELSE 1
        /\ Cardinality(CallsOfType("sections")) =
              IF last.summaries.sections = <<>> THEN 0 ELSE 1
        /\ Len(last.calls) <= 3
        /\ \A i \in CallsOfType("bullets") :
              /\ last.calls[i].text.sentences =
                    JoinSentences(last.summaries.bullets[1].lines)
              /\ last.report.bullets_validation[1].error = NoKey
                    => last.report.bullets_validation[1].summary_type = "bullets"
        /\ \A i \in CallsOfType("sections") :
              /\ last.calls[i].text.sentences =
                    JoinSentences(FirstFiveSummaries(last.summaries.sections[1]))
              /\ last.report.sections_validation[1].error = NoKey
                    => last.report.sections_validation[1].summary_type = "sections"
        /\ LET other == ValidateAllResult(index, metadata, last.document_id,
                                          WithoutLaterSections(last.summaries))
           IN  other.outcome = "returned" /\ other.report = last.report

\* the object has bullets of two lines and six section entries, the sixth
\* with a sentence that would be flagged, and the sections are found valid
C27_Witness ==
    /\ Reported
    /\ last.summaries.bullets # <<>>
    /\ last.summaries.sections # <<>>
    /\ Len(last.summaries.sections[1]) = 6
    /\ last.summaries.sections[1][6] = Entry(T_sentence)
    /\ last.report.sections_validation[1].error = NoKey
    /\ last.report.sections_validation[1].hallucinations = <<>>

----------------------------------------------------------------------------
(* Properties of repeated embed requests (checked under SpecEmbed)         *)

NoRepeatedChunk(results) ==
    \A i \in 1..Len(results), j \in 1..Len(results) :
        results[i].chunk_id = results[j].chunk_id => i = j

\* C29: after any sequence of embed requests, one repeated for the same
\* document included, the index holds at most one entry per
\* (document_id, chunk_id), and neither get_document_chunks nor
\* search_similar filtered by the document returns a chunk_id twice.
C29_OneEntryPerChunk ==
    /\ \A p \in DOMAIN metadata, r \in DOMAIN metadata :
          (/\ metadata[p].document_id = metadata[r].document_id
           /\ metadata[p].chunk_id = metadata[r].chunk_id) => p = r
    /\ \A d \in Docs :
          /\ \A q \in QueryVecs :
                NoRepeatedChunk(SearchFaiss(index, metadata, q, MaxK, d))
          /\ LET listed == GetChunksFromFaiss(metadata, ntotal(index), d)
             IN  listed.outcome = "returned" => NoRepeatedChunk(listed.chunks)

====
